---- MODULE Spec2Model ----
(***************************************************************************)
(* Model of cassette::decode (src/src/cassette.rs): the zero-crossing      *)
(* detector, the pulse-width classifier and the frame assembler, stepped   *)
(* one loop iteration at a time.                                           *)
(***************************************************************************)
EXTENDS Integers, Sequences, FiniteSets, TLC

VARIABLES
    samples,        \* the argument `samples: &[i32]` (see SampleAt)
    spec,           \* the argument `spec: Spec`: [sample_rate, channels]
    overflow_checks,\* build setting: TRUE = overflow checks on (debug profile)
    pc,             \* position in decode
    i,              \* index of the scan loop (line 35)
    last,           \* `last` (line 34): <<sample, index>>
    intersections,  \* `intersections` (line 33)
    j,              \* index `i` of the classify loop (line 50)
    dat,            \* `dat: Vec<Pulse>` (line 49)
    sections,       \* `sections` (line 48)
    s,              \* position of the iterator over sections (line 72)
    p,              \* position of the iterator over one section (line 74)
    active,         \* `active` (line 73)
    bits,           \* `dat: BitVec` (line 71)
    raw_sections,   \* `raw_sections` (line 70)
    result          \* what the call produced

vars == <<samples, spec, overflow_checks, pc, i, last, intersections, j, dat,
          sections, s, p, active, bits, raw_sections, result>>

----------------------------------------------------------------------------
(* Program constants *)

\* INT_CROSS_THRESHOLD = (0.1f32 * 32767f32) as i32 = 3276 (3276.7 truncated)
INT_CROSS_THRESHOLD == 3276

I32_MIN == -2147483647 - 1

\* START_SEQUENCE = 0x7F viewed as bits, most significant bit first
START_SEQUENCE == <<0, 1, 1, 1, 1, 1, 1, 1>>

----------------------------------------------------------------------------
(* IEEE-754 binary32 arithmetic on positive values.  A value is            *)
(* <<m, e>> with 2^23 <= m < 2^24, standing for m * 2^(e - 23).            *)

Pow2(n) == 2 ^ n

RECURSIVE Log2Floor(_)
Log2Floor(n) == IF n <= 1 THEN 0 ELSE 1 + Log2Floor(n \div 2)

\* Round the integer quotient q with remainder information to nearest, ties
\* to even: cmp is -1, 0, 1 as the discarded part is below, at or above half.
RoundEven(q, cmp) ==
    IF cmp > 0 \/ (cmp = 0 /\ q % 2 = 1) THEN q + 1 ELSE q

Normalize(m, e) == IF m = Pow2(24) THEN <<Pow2(23), e + 1>> ELSE <<m, e>>

Sign3(x) == IF x < 0 THEN -1 ELSE IF x = 0 THEN 0 ELSE 1

\* `n as f32` for an integer n >= 1
F32FromInt(n) ==
    LET e == Log2Floor(n) IN
    IF e <= 23 THEN <<n * Pow2(23 - e), e>>
    ELSE LET sh   == e - 23
             q    == n \div Pow2(sh)
             rem  == n % Pow2(sh)
         IN  Normalize(RoundEven(q, Sign3(2 * rem - Pow2(sh))), e)

\* 23 further quotient bits of rem / den by long division: <<q, rem>>
RECURSIVE LongDiv(_, _, _, _)
LongDiv(rem, den, q, n) ==
    IF n = 0 THEN <<q, rem>>
    ELSE LET r2 == 2 * rem
         IN  IF r2 >= den THEN LongDiv(r2 - den, den, 2 * q + 1, n - 1)
                          ELSE LongDiv(r2, den, 2 * q, n - 1)

\* a / b in binary32, correctly rounded
F32Div(a, b) ==
    LET big == a[1] >= b[1]
        num == IF big THEN a[1] ELSE 2 * a[1]
        e   == IF big THEN a[2] - b[2] ELSE a[2] - b[2] - 1
        qr  == LongDiv(num - b[1], b[1], 1, 23)
    IN  Normalize(RoundEven(qr[1], Sign3(2 * qr[2] - b[1])), e)

F32Lt(a, b) == a[2] < b[2] \/ (a[2] = b[2] /\ a[1] < b[1])
F32Le(a, b) == ~F32Lt(b, a)

\* Range<f32>::contains: start <= x && x < end
RangeContains(range, x) == F32Le(range[1], x) /\ F32Lt(x, range[2])

F32Const(num, den) == F32Div(F32FromInt(num), F32FromInt(den))

PULSE_ONE   == <<F32Const(15, 44100), F32Const(20, 44100)>>
PULSE_ZERO  == <<F32Const(35, 44100), F32Const(39, 44100)>>
PULSE_START == <<F32Const(41, 44100), F32Const(46, 44100)>>
PULSE_END   == F32Const(20000, 44100)

----------------------------------------------------------------------------
(* The values of the call *)

\* Result<Vec<BitVec>>: Ok carries the sections, Err carries only a message.
\* "Panic" is the abnormal end of the call (no value is returned).
Ok(v)    == [tag |-> "Ok", val |-> v, msg |-> ""]
Err(m)   == [tag |-> "Err", val |-> <<>>, msg |-> m]
Panicked == [tag |-> "Panic", val |-> <<>>, msg |-> ""]
Running  == [tag |-> "None", val |-> <<>>, msg |-> ""]

InvalidPulseLength == "Invalid pulse length"
InvalidStartPulse  == "Invalid start pulse"
NoStartSequence    == "Didn't find start sequence"

\* The buffer is held as [len, at]: `at` maps the indices that are written
\* out to their sample, every other index below len holds 0 (silence).
SampleAt(buf, idx) == IF idx \in DOMAIN buf.at THEN buf.at[idx] ELSE 0

\* i32::signum
Signum(x) == IF x < 0 THEN -1 ELSE IF x = 0 THEN 0 ELSE 1

\* i32::abs without overflow checks: abs(i32::MIN) wraps to i32::MIN
WrappingAbs(x) == IF x = I32_MIN THEN I32_MIN ELSE IF x < 0 THEN -x ELSE x

----------------------------------------------------------------------------
(* Crossing detector: the body of the loop at lines 35-46 *)

\* ScanBody without the channel test of lines 36-38
ScanBodyAllChannels(ints, lst, idx, sample, channels, checks) ==
    IF sample = I32_MIN /\ checks
    THEN [intersections |-> ints, last |-> lst, panic |-> TRUE]
    ELSE IF WrappingAbs(sample) > INT_CROSS_THRESHOLD
    THEN [intersections |->
              IF Signum(lst[1]) # Signum(sample) /\ Signum(lst[1]) = -1
              THEN Append(ints, idx) ELSE ints,
          last |-> <<sample, idx>>,
          panic |-> FALSE]
    ELSE [intersections |-> ints, last |-> lst, panic |-> FALSE]

\* ScanBody without the `last.0.signum() == -1` of line 41
ScanBodyAnyChange(ints, lst, idx, sample, channels, checks) ==
    IF idx % channels # 0
    THEN [intersections |-> ints, last |-> lst, panic |-> FALSE]
    ELSE IF sample = I32_MIN /\ checks
    THEN [intersections |-> ints, last |-> lst, panic |-> TRUE]
    ELSE IF WrappingAbs(sample) > INT_CROSS_THRESHOLD
    THEN [intersections |->
              IF Signum(lst[1]) # Signum(sample)
              THEN Append(ints, idx) ELSE ints,
          last |-> <<sample, idx>>,
          panic |-> FALSE]
    ELSE [intersections |-> ints, last |-> lst, panic |-> FALSE]

ScanBody(ints, lst, idx, sample, channels, checks) ==
    IF idx % channels # 0
    THEN [intersections |-> ints, last |-> lst, panic |-> FALSE]
    ELSE IF sample = I32_MIN /\ checks
    THEN [intersections |-> ints, last |-> lst, panic |-> TRUE]
    ELSE IF WrappingAbs(sample) > INT_CROSS_THRESHOLD
    THEN [intersections |->
              IF Signum(lst[1]) # Signum(sample) /\ Signum(lst[1]) = -1
              THEN Append(ints, idx) ELSE ints,
          last |-> <<sample, idx>>,
          panic |-> FALSE]
    ELSE [intersections |-> ints, last |-> lst, panic |-> FALSE]

----------------------------------------------------------------------------
(* Pulse classifier: lines 51-63 *)

\* Classify with the pulses of lines 53 and 55 exchanged
ClassifySwapped(d, rate) ==
    LET diff == F32Div(F32FromInt(d), F32FromInt(rate)) IN
    IF RangeContains(PULSE_ONE, diff) THEN "Zero"
    ELSE IF RangeContains(PULSE_ZERO, diff) THEN "One"
    ELSE IF RangeContains(PULSE_START, diff) THEN "Start"
    ELSE IF F32Lt(PULSE_END, diff) THEN "End"
    ELSE "Invalid"

Classify(d, rate) ==
    LET diff == F32Div(F32FromInt(d), F32FromInt(rate)) IN
    IF RangeContains(PULSE_ONE, diff) THEN "One"
    ELSE IF RangeContains(PULSE_ZERO, diff) THEN "Zero"
    ELSE IF RangeContains(PULSE_START, diff) THEN "Start"
    ELSE IF F32Lt(PULSE_END, diff) THEN "End"
    ELSE "Invalid"

----------------------------------------------------------------------------
(* Frame assembler: the body of the loop at lines 74-89 *)

Last8(b) == SubSeq(b, Len(b) - 7, Len(b))

\* PulseBits without the alignment test of line 78
PulseBitsUnaligned(b, act, pulse) ==
    IF pulse = "Zero" THEN [bits |-> Append(b, 0), err |-> FALSE]
    ELSE IF pulse = "One" THEN [bits |-> Append(b, 1), err |-> FALSE]
    ELSE IF act THEN [bits |-> b, err |-> FALSE]
    ELSE [bits |-> Append(b, 0), err |-> FALSE]

\* PulseBits with the Start pulse of line 78 pushed as a bit once accepted
PulseBitsStartCounted(b, act, pulse) ==
    IF pulse = "Zero" THEN [bits |-> Append(b, 0), err |-> FALSE]
    ELSE IF pulse = "One" THEN [bits |-> Append(b, 1), err |-> FALSE]
    ELSE IF act THEN [bits |-> Append(b, 0), err |-> Len(b) % 8 # 0]
    ELSE [bits |-> Append(b, 0), err |-> FALSE]

\* the match at lines 75-80: the bits after the pulse, and whether ensure! failed
PulseBits(b, act, pulse) ==
    IF pulse = "Zero" THEN [bits |-> Append(b, 0), err |-> FALSE]
    ELSE IF pulse = "One" THEN [bits |-> Append(b, 1), err |-> FALSE]
    ELSE IF act THEN [bits |-> b, err |-> Len(b) % 8 # 0]
    ELSE [bits |-> Append(b, 0), err |-> FALSE]

\* SyncFound without the `!active` of line 82
SyncFoundAgain(b, act) == Len(b) >= 8 /\ Last8(b) = START_SEQUENCE

\* the synchronisation test at lines 82-88
SyncFound(b, act) == ~act /\ Len(b) >= 8 /\ Last8(b) = START_SEQUENCE

\* PulseBody without the `dat.clear()` of line 87
PulseBodyKeepsMarker(b, act, pulse) ==
    LET m == PulseBits(b, act, pulse) IN
    IF m.err THEN [bits |-> b, active |-> act, err |-> TRUE]
    ELSE [bits |-> m.bits, active |-> act \/ SyncFound(m.bits, act),
          err |-> FALSE]

PulseBody(b, act, pulse) ==
    LET m == PulseBits(b, act, pulse) IN
    IF m.err THEN [bits |-> b, active |-> act, err |-> TRUE]
    ELSE IF SyncFound(m.bits, act)
    THEN [bits |-> <<>>, active |-> TRUE, err |-> FALSE]
    ELSE [bits |-> m.bits, active |-> act, err |-> FALSE]

----------------------------------------------------------------------------
(* The steps of decode *)

Finish(r) == pc' = "done" /\ result' = r

\* one iteration of the scan loop (lines 35-46)
ScanStep ==
    /\ pc = "scan"
    /\ i < samples.len
    /\ LET b == ScanBody(intersections, last, i, SampleAt(samples, i),
                         spec.channels, overflow_checks)
       IN  IF b.panic
           THEN /\ Finish(Panicked)
                /\ UNCHANGED <<i, last, intersections>>
           ELSE /\ i' = i + 1
                /\ last' = b.last
                /\ intersections' = b.intersections
                /\ UNCHANGED <<pc, result>>
    /\ UNCHANGED <<samples, spec, overflow_checks, j, dat, sections, s, p,
                   active, bits, raw_sections>>

\* the scan loop ends; lines 48-50 set up the classify loop.  The range
\* 0..intersections.len() - 1 underflows on an empty vector: the subtraction
\* panics with overflow checks, and without them the range runs to
\* usize::MAX and intersections[1] panics at the first iteration.
ClassifyEnter ==
    /\ pc = "scan"
    /\ i = samples.len
    /\ IF Len(intersections) = 0
       THEN Finish(Panicked)
       ELSE pc' = "classify" /\ UNCHANGED result
    /\ UNCHANGED <<samples, spec, overflow_checks, i, last, intersections, j,
                   dat, sections, s, p, active, bits, raw_sections>>

\* ClassifyStep with the test of line 66 applied at line 59 as well: a long
\* gap after an empty run pushes no section
ClassifyStepSkipsEmpty ==
    /\ pc = "classify"
    /\ j < Len(intersections) - 1
    /\ \E kind \in {Classify(intersections[j + 2] - intersections[j + 1],
                               spec.sample_rate)} :
           IF kind = "Invalid"
           THEN /\ Finish(Err(InvalidPulseLength))
                /\ UNCHANGED <<j, dat, sections>>
           ELSE /\ j' = j + 1
                /\ dat' = IF kind = "End" THEN <<>> ELSE Append(dat, kind)
                /\ sections' = IF kind = "End" /\ dat # <<>>
                                THEN Append(sections, dat) ELSE sections
                /\ UNCHANGED <<pc, result>>
    /\ UNCHANGED <<samples, spec, overflow_checks, i, last, intersections, s,
                   p, active, bits, raw_sections>>

\* ClassifyStep without the `bail!` of line 62: the gap is passed over
ClassifyStepLenient ==
    /\ pc = "classify"
    /\ j < Len(intersections) - 1
    /\ \E kind \in {Classify(intersections[j + 2] - intersections[j + 1],
                               spec.sample_rate)} :
           /\ j' = j + 1
           /\ dat' = IF kind = "End" THEN <<>>
                      ELSE IF kind = "Invalid" THEN dat ELSE Append(dat, kind)
           /\ sections' = IF kind = "End" THEN Append(sections, dat)
                                          ELSE sections
           /\ UNCHANGED <<pc, result>>
    /\ UNCHANGED <<samples, spec, overflow_checks, i, last, intersections, s,
                   p, active, bits, raw_sections>>

\* one iteration of the classify loop (lines 50-64)
ClassifyStep ==
    /\ pc = "classify"
    /\ j < Len(intersections) - 1
    /\ \E kind \in {Classify(intersections[j + 2] - intersections[j + 1],
                               spec.sample_rate)} :
           IF kind = "Invalid"
           THEN /\ Finish(Err(InvalidPulseLength))
                /\ UNCHANGED <<j, dat, sections>>
           ELSE /\ j' = j + 1
                /\ dat' = IF kind = "End" THEN <<>> ELSE Append(dat, kind)
                /\ sections' = IF kind = "End" THEN Append(sections, dat)
                                               ELSE sections
                /\ UNCHANGED <<pc, result>>
    /\ UNCHANGED <<samples, spec, overflow_checks, i, last, intersections, s,
                   p, active, bits, raw_sections>>

\* ClassifyDone without the final flush of lines 66-68
ClassifyDoneNoFlush ==
    /\ pc = "classify"
    /\ j = Len(intersections) - 1
    /\ pc' = "section"
    /\ UNCHANGED <<samples, spec, overflow_checks, i, last, intersections, j,
                   dat, sections, s, p, active, bits, raw_sections, result>>

\* the classify loop ends; lines 66-71
ClassifyDone ==
    /\ pc = "classify"
    /\ j = Len(intersections) - 1
    /\ sections' = IF dat # <<>> THEN Append(sections, dat) ELSE sections
    /\ pc' = "section"
    /\ UNCHANGED <<samples, spec, overflow_checks, i, last, intersections, j,
                   dat, s, p, active, bits, raw_sections, result>>

\* SectionStart without the `let mut active = false` of line 73
SectionStartKeepsActive ==
    /\ pc = "section"
    /\ s < Len(sections)
    /\ p' = 0
    /\ pc' = "pulse"
    /\ UNCHANGED <<samples, spec, overflow_checks, i, last, intersections, j,
                   dat, sections, s, active, bits, raw_sections, result>>

\* the outer loop takes the next section (lines 72-73)
SectionStart ==
    /\ pc = "section"
    /\ s < Len(sections)
    /\ active' = FALSE
    /\ p' = 0
    /\ pc' = "pulse"
    /\ UNCHANGED <<samples, spec, overflow_checks, i, last, intersections, j,
                   dat, sections, s, bits, raw_sections, result>>

\* one iteration of the inner loop (lines 74-89)
PulseStep ==
    /\ pc = "pulse"
    /\ p < Len(sections[s + 1])
    /\ LET b == PulseBody(bits, active, sections[s + 1][p + 1])
       IN  IF b.err
           THEN /\ Finish(Err(InvalidStartPulse))
                /\ UNCHANGED <<p, bits, active>>
           ELSE /\ p' = p + 1
                /\ bits' = b.bits
                /\ active' = b.active
                /\ UNCHANGED <<pc, result>>
    /\ UNCHANGED <<samples, spec, overflow_checks, i, last, intersections, j,
                   dat, sections, s, raw_sections>>

\* SectionEnd without the `ensure!(active, ..)` of line 91
SectionEndUnchecked ==
    /\ pc = "pulse"
    /\ p = Len(sections[s + 1])
    /\ raw_sections' = Append(raw_sections, bits)
    /\ bits' = <<>>
    /\ s' = s + 1
    /\ pc' = "section"
    /\ UNCHANGED <<samples, spec, overflow_checks, i, last, intersections, j,
                   dat, sections, p, active, result>>

\* the inner loop ends; lines 91-93
SectionEnd ==
    /\ pc = "pulse"
    /\ p = Len(sections[s + 1])
    /\ IF ~active
       THEN /\ Finish(Err(NoStartSequence))
            /\ UNCHANGED <<raw_sections, bits, s>>
       ELSE /\ raw_sections' = Append(raw_sections, bits)
            /\ bits' = <<>>
            /\ s' = s + 1
            /\ pc' = "section"
            /\ UNCHANGED result
    /\ UNCHANGED <<samples, spec, overflow_checks, i, last, intersections, j,
                   dat, sections, p, active>>

\* the outer loop ends; line 96
Return ==
    /\ pc = "section"
    /\ s = Len(sections)
    /\ Finish(Ok(raw_sections))
    /\ UNCHANGED <<samples, spec, overflow_checks, i, last, intersections, j,
                   dat, sections, s, p, active, bits, raw_sections>>

----------------------------------------------------------------------------
(* decode as a function of its arguments: the loops above, run to the end *)

RECURSIVE ScanFrom(_, _, _, _, _, _)
ScanFrom(buf, idx, ints, lst, channels, checks) ==
    IF idx = buf.len THEN [panic |-> FALSE, intersections |-> ints]
    ELSE LET b == ScanBody(ints, lst, idx, SampleAt(buf, idx), channels, checks)
         IN  IF b.panic THEN [panic |-> TRUE, intersections |-> ints]
             ELSE ScanFrom(buf, idx + 1, b.intersections, b.last, channels,
                           checks)

RECURSIVE ClassifyFrom(_, _, _, _, _)
ClassifyFrom(ints, k, pulses, secs, rate) ==
    IF k = Len(ints) - 1
    THEN [err |-> FALSE,
          sections |-> IF pulses # <<>> THEN Append(secs, pulses) ELSE secs]
    ELSE LET kind == Classify(ints[k + 2] - ints[k + 1], rate)
         IN  IF kind = "Invalid" THEN [err |-> TRUE, sections |-> secs]
             ELSE IF kind = "End"
             THEN ClassifyFrom(ints, k + 1, <<>>, Append(secs, pulses), rate)
             ELSE ClassifyFrom(ints, k + 1, Append(pulses, kind), secs, rate)

RECURSIVE AssembleSection(_, _, _, _)
AssembleSection(sec, n, b, act) ==
    IF n = Len(sec)
    THEN [err |-> IF act THEN "" ELSE NoStartSequence, bits |-> b]
    ELSE LET r == PulseBody(b, act, sec[n + 1])
         IN  IF r.err THEN [err |-> InvalidStartPulse, bits |-> b]
             ELSE AssembleSection(sec, n + 1, r.bits, r.active)

RECURSIVE AssembleFrom(_, _, _)
AssembleFrom(secs, k, raw) ==
    IF k = Len(secs) THEN Ok(raw)
    ELSE LET a == AssembleSection(secs[k + 1], 0, <<>>, FALSE)
         IN  IF a.err # "" THEN Err(a.err)
             ELSE AssembleFrom(secs, k + 1, Append(raw, a.bits))

Decode(buf, sp, checks) ==
    LET sc == ScanFrom(buf, 0, <<>>, <<0, 0>>, sp.channels, checks) IN
    IF sc.panic \/ Len(sc.intersections) = 0 THEN Panicked
    ELSE LET cl == ClassifyFrom(sc.intersections, 0, <<>>, <<>>,
                                sp.sample_rate)
         IN  IF cl.err THEN Err(InvalidPulseLength)
             ELSE AssembleFrom(cl.sections, 0, <<>>)

----------------------------------------------------------------------------
(* decode on short sample buffers, from its first line *)

MaxSamples  == 4
MaxChannels == 2

SampleVals == {I32_MIN, -(INT_CROSS_THRESHOLD + 1), -INT_CROSS_THRESHOLD,
               INT_CROSS_THRESHOLD, INT_CROSS_THRESHOLD + 1}

\* sample rates at which a gap of two samples is a section boundary, a Start
\* pulse and a One pulse
ScanRates == {4, 2100, 5880}

Buffers(n) == {[len |-> n, at |-> f] : f \in [0 .. n - 1 -> SampleVals]}

\* the locals as lines 33-34, 48-49 and 70-71 create them
Locals ==
    /\ i = 0
    /\ last = <<0, 0>>
    /\ intersections = <<>>
    /\ j = 0
    /\ dat = <<>>
    /\ sections = <<>>
    /\ s = 0
    /\ p = 0
    /\ active = FALSE
    /\ bits = <<>>
    /\ raw_sections = <<>>
    /\ result = Running

Init ==
    /\ \E n \in 0 .. MaxSamples : samples \in Buffers(n)
    /\ \E r \in ScanRates, c \in 1 .. MaxChannels :
           spec = [sample_rate |-> r, channels |-> c]
    /\ overflow_checks \in BOOLEAN
    /\ pc = "scan"
    /\ Locals

Next ==
    \/ ScanStep
    \/ ClassifyEnter
    \/ ClassifyStep
    \/ ClassifyDone
    \/ SectionStart
    \/ PulseStep
    \/ SectionEnd
    \/ Return

Spec == Init /\ [][Next]_vars

----------------------------------------------------------------------------
(* decode from the classify loop on, on buffers given by their gaps.  The  *)
(* buffer holds, for every crossing c, a negative sample above the         *)
(* threshold at c - 1 and a positive one at c, and silence elsewhere; the  *)
(* initial state is the one the scan loop leaves on that buffer.           *)

MaxTokens == 4

CeilDiv(a, b) == (a + b - 1) \div b

\* a * r / b rounded down and up, without leaving 32 bits
MulDivFloor(a, r, b) == a * (r \div b) + (a * (r % b)) \div b
MulDivCeil(a, r, b)  == a * (r \div b) + CeilDiv(a * (r % b), b)

\* the shortest gap, in samples, of each kind at a sample rate
OneGap(rate)     == CeilDiv(15 * rate, 44100)
ZeroGap(rate)    == CeilDiv(35 * rate, 44100)
StartGap(rate)   == CeilDiv(41 * rate, 44100)
LongGap(rate)    == (200 * rate) \div 441 + 1
\* the end of the One range: a gap of exactly 20/44100 s when rate allows
InvalidGap(rate) == CeilDiv(20 * rate, 44100)

Repeat(x, n) == [k \in 1 .. n |-> x]

\* a token is one gap, or the eight gaps of the byte 0x7F led by a Zero-length
\* ("M") or a Start-length ("N") gap
Tokens == {"O", "Z", "S", "L", "X", "M", "N"}

TokenGaps(tok, rate) ==
    CASE tok = "O" -> <<OneGap(rate)>>
      [] tok = "Z" -> <<ZeroGap(rate)>>
      [] tok = "S" -> <<StartGap(rate)>>
      [] tok = "L" -> <<LongGap(rate)>>
      [] tok = "X" -> <<InvalidGap(rate)>>
      [] tok = "M" -> <<ZeroGap(rate)>> \o Repeat(OneGap(rate), 7)
      [] tok = "N" -> <<StartGap(rate)>> \o Repeat(OneGap(rate), 7)

RECURSIVE GapsOf(_, _)
GapsOf(toks, rate) ==
    IF toks = <<>> THEN <<>>
    ELSE TokenGaps(Head(toks), rate) \o GapsOf(Tail(toks), rate)

TokenSeqs(n) == UNION {[1 .. m -> Tokens] : m \in 0 .. n}

\* the crossing indices: the first at index 1, then one per gap
RECURSIVE CrossingsOf(_, _)
CrossingsOf(first, gaps) ==
    IF gaps = <<>> THEN <<first>>
    ELSE <<first>> \o CrossingsOf(first + Head(gaps), Tail(gaps))

SeqRange(q) == {q[k] : k \in 1 .. Len(q)}

NegSample == -(INT_CROSS_THRESHOLD + 1)
PosSample == INT_CROSS_THRESHOLD + 1

BufferOf(crossings) ==
    LET cs == SeqRange(crossings) IN
    [len |-> crossings[Len(crossings)] + 1,
     at  |-> [x \in cs \cup {c - 1 : c \in cs} |->
                  IF x \in cs THEN PosSample ELSE NegSample]]

\* 8820 Hz: a One gap is 3 samples, a Zero gap 7, a Start gap 9
FrameRates == {8820}

\* the state at line 50 after the scan of BufferOf(crossings)
AfterScan(crossings, rate) ==
    /\ samples = BufferOf(crossings)
    /\ spec = [sample_rate |-> rate, channels |-> 1]
    /\ overflow_checks = FALSE   \* read by the scan loop only
    /\ pc = "classify"
    /\ i = crossings[Len(crossings)] + 1
    /\ last = <<PosSample, crossings[Len(crossings)]>>
    /\ intersections = crossings
    /\ j = 0
    /\ dat = <<>>
    /\ sections = <<>>
    /\ s = 0
    /\ p = 0
    /\ active = FALSE
    /\ bits = <<>>
    /\ raw_sections = <<>>
    /\ result = Running

InitFrame ==
    \E rate \in FrameRates, toks \in TokenSeqs(MaxTokens) :
        AfterScan(CrossingsOf(1, GapsOf(toks, rate)), rate)

NextFrame ==
    \/ ClassifyStep
    \/ ClassifyDone
    \/ SectionStart
    \/ PulseStep
    \/ SectionEnd
    \/ Return

SpecFrame == InitFrame /\ [][NextFrame]_vars

----------------------------------------------------------------------------
(* decode from the classify loop on, on one gap at the edges of the table  *)

GapSpread == 1

\* the last three are rates at which the quotient of line 51 rounds onto a
\* bound of the table from the other side of it
GapRates == {8820, 44100, 48000, 3532324, 16577298, 16577766}

EdgeGaps(rate) ==
    {g \in {MulDivFloor(a, rate, 44100) + e :
                a \in {15, 20, 35, 39, 41, 46}, e \in -GapSpread .. GapSpread}
           \cup {MulDivFloor(200, rate, 441) + e : e \in -GapSpread .. GapSpread}
        : g >= 2}

InitGap ==
    \E rate \in GapRates :
        \/ AfterScan(<<1>>, rate)
        \/ \E g \in EdgeGaps(rate) : AfterScan(<<1, 1 + g>>, rate)

SpecGap == InitGap /\ [][NextFrame]_vars

----------------------------------------------------------------------------
(* decode from the classify loop on, on the pulse train of a byte sequence *)

MaxBytes == 2

ByteVals == {0, 127, 165, 255}

ByteSeqs ==
    {<<b>> : b \in 0 .. 255} \cup UNION {[1 .. m -> ByteVals] : m \in 0 .. MaxBytes}

\* the bits of a byte, most significant first
ByteBits(b) == [k \in 1 .. 8 |-> (b \div Pow2(8 - k)) % 2]

RECURSIVE BitsOf(_)
BitsOf(bytes) ==
    IF bytes = <<>> THEN <<>> ELSE ByteBits(Head(bytes)) \o BitsOf(Tail(bytes))

\* the gap of a pulse kind: the shortest or the longest in its range
KindGap(kind, longest, rate) ==
    CASE kind = "One" ->
             IF longest THEN MulDivCeil(20, rate, 44100) - 1 ELSE OneGap(rate)
      [] kind = "Zero" ->
             IF longest THEN MulDivCeil(39, rate, 44100) - 1 ELSE ZeroGap(rate)
      [] kind = "Start" ->
             IF longest THEN MulDivCeil(46, rate, 44100) - 1 ELSE StartGap(rate)

\* the marker 0x7F led by `lead`, then one gap per bit
TrainGaps(bytes, lead, longest, rate) ==
    LET payload == BitsOf(bytes) IN
    <<KindGap(lead, longest, rate)>>
    \o Repeat(KindGap("One", longest, rate), 7)
    \o [k \in 1 .. Len(payload) |->
           KindGap(IF payload[k] = 1 THEN "One" ELSE "Zero", longest, rate)]

RoundRates == {8820, 44100}

InitRound ==
    \E rate \in RoundRates, bytes \in ByteSeqs, lead \in {"Zero", "Start"},
       longest \in BOOLEAN :
        AfterScan(CrossingsOf(1, TrainGaps(bytes, lead, longest, rate)), rate)

SpecRound == InitRound /\ [][NextFrame]_vars

----------------------------------------------------------------------------
(* What the documentation says of a section, stated on the pulses alone *)

\* the table of 4.2 on the exact ratio d / rate
ExactKind(d, rate) ==
    IF d >= MulDivCeil(15, rate, 44100) /\ d < MulDivCeil(20, rate, 44100)
    THEN "One"
    ELSE IF d >= MulDivCeil(35, rate, 44100) /\ d < MulDivCeil(39, rate, 44100)
    THEN "Zero"
    ELSE IF d >= MulDivCeil(41, rate, 44100) /\ d < MulDivCeil(46, rate, 44100)
    THEN "Start"
    ELSE IF d > MulDivFloor(200, rate, 441) THEN "End"
    ELSE "Invalid"

\* the bit a pulse stands for before synchronisation
PreBit(pulse) == IF pulse = "One" THEN 1 ELSE 0

PreBits(sec, n) == [k \in 1 .. n |-> PreBit(sec[k])]

\* the last 8 of the first n pulses read 01111111
MarkerAt(sec, n) ==
    n >= 8 /\ \A k \in 1 .. 8 : PreBit(sec[n - 8 + k]) = START_SEQUENCE[k]

\* where the first marker ends among the first n pulses, 0 if there is none
FirstMarker(sec, n) ==
    LET ends == {m \in 1 .. n : MarkerAt(sec, m)} IN
    IF ends = {} THEN 0 ELSE CHOOSE m \in ends : \A o \in ends : m <= o

IsBitPulse(pulse) == pulse \in {"Zero", "One"}

\* the bits of the Zero and One pulses among pulses from + 1 .. to
PostBits(sec, from, to) ==
    LET kept == SelectSeq(SubSeq(sec, from + 1, to), IsBitPulse) IN
    [k \in 1 .. Len(kept) |-> PreBit(kept[k])]

\* the output the documentation gives a section that synchronises
Payload(sec) == PostBits(sec, FirstMarker(sec, Len(sec)), Len(sec))

\* the gaps between consecutive crossings, classified by the table of 4.2
GapKinds ==
    [k \in 1 .. Len(intersections) - 1 |->
        ExactKind(intersections[k + 1] - intersections[k], spec.sample_rate)]

\* the positions of the long gaps, and the n-th of them
EndPositions(kinds) == {k \in 1 .. Len(kinds) : kinds[k] = "End"}

NthEnd(kinds, n) ==
    IF n = 0 THEN 0
    ELSE CHOOSE k \in EndPositions(kinds) :
             Cardinality({e \in EndPositions(kinds) : e <= k}) = n

\* the runs of pulses: one ended by each long gap, and the rest if not empty
ExpectedRuns(kinds) ==
    LET m     == Cardinality(EndPositions(kinds))
        final == SubSeq(kinds, NthEnd(kinds, m) + 1, Len(kinds))
    IN  [n \in 1 .. m |->
            SubSeq(kinds, NthEnd(kinds, n - 1) + 1, NthEnd(kinds, n) - 1)]
        \o (IF final = <<>> THEN <<>> ELSE <<final>>)

----------------------------------------------------------------------------
(* Claims about the frame assembler, checked under SpecFrame *)

\* C3: within a section, `active` is set exactly from the first point where
\* the last 8 accumulated bits read 01111111 (Zero and a Start before
\* synchronisation counting as 0, One as 1); before it the accumulator holds
\* one bit per pulse, from it on only the bits of the Zero and One pulses
\* after that first marker, in order; a section's output is its payload.
C3_FirstMarkerStartsPayload ==
    /\ pc = "pulse" =>
         \E f \in {FirstMarker(sections[s + 1], p)} :
             /\ active <=> f > 0
             /\ bits = IF f > 0 THEN PostBits(sections[s + 1], f, p)
                                ELSE PreBits(sections[s + 1], p)
    /\ \A k \in 1 .. Len(raw_sections) :
         /\ FirstMarker(sections[k], Len(sections[k])) > 0
         /\ raw_sections[k] = Payload(sections[k])
    /\ (pc = "done" /\ result.tag = "Ok") =>
         result.val = [k \in 1 .. Len(sections) |-> Payload(sections[k])]

\* a call that succeeded on a section with a pulse before the marker, a marker
\* led by a Start pulse, a Start pulse after it and a payload bit
C3_Witness ==
    /\ pc = "done"
    /\ result.tag = "Ok"
    /\ \E k \in 1 .. Len(sections) :
         \E f \in {FirstMarker(sections[k], Len(sections[k]))} :
             /\ f > 8
             /\ sections[k][f - 7] = "Start"
             /\ \E m \in f + 1 .. Len(sections[k]) : sections[k][m] = "Start"
             /\ result.val[k] # <<>>

\* C5: a Start pulse met while the section is synchronised appends no bit;
\* the call goes on iff the number of accumulated bits is a multiple of 8
\* (0 included), and otherwise fails with the misaligned-start-pulse error.
C5_StartAfterSync ==
    [][(/\ pc = "pulse"
        /\ active
        /\ p < Len(sections[s + 1])
        /\ sections[s + 1][p + 1] = "Start")
       => IF Len(bits) % 8 = 0
          THEN /\ pc' = "pulse"
               /\ p' = p + 1
               /\ bits' = bits
               /\ active'
               /\ result' = result
          ELSE /\ pc' = "done"
               /\ result' = Err(InvalidStartPulse)]_vars

\* a Start pulse refused in a section where an earlier one was accepted
C5_Witness ==
    /\ pc = "done"
    /\ result = Err(InvalidStartPulse)
    /\ active
    /\ sections[s + 1][p + 1] = "Start"
    /\ Len(bits) % 8 # 0
    /\ \E m \in FirstMarker(sections[s + 1], p) + 1 .. p :
           sections[s + 1][m] = "Start"

\* C6: a section that ends without the marker ever having been the last 8
\* accumulated bits makes the call fail with the synchronisation-not-found
\* error; a section that ends after its marker yields its payload, which is
\* empty when nothing follows the marker.
C6_SectionWithoutMarkerFails ==
    [][(pc = "pulse" /\ p = Len(sections[s + 1]))
       => IF FirstMarker(sections[s + 1], p) = 0
          THEN /\ pc' = "done"
               /\ result' = Err(NoStartSequence)
          ELSE /\ pc' = "section"
               /\ raw_sections' = Append(raw_sections, Payload(sections[s + 1]))
               /\ result' = result]_vars

\* the call failed on a second section of fewer than 8 pulses, after a first
\* section that held the marker alone and gave an empty bit sequence
C6_Witness ==
    /\ pc = "done"
    /\ result = Err(NoStartSequence)
    /\ raw_sections = << <<>> >>
    /\ Len(sections[s + 1]) \in 1 .. 7

\* C9, as stated: in a synchronised section every reappearance of the marker
\* discards the accumulated bits, so the accumulator never ends with it.
C9_Original ==
    (pc = "pulse" /\ active /\ Len(bits) >= 8) => Last8(bits) # START_SEQUENCE

\* C9, amended: in a synchronised section no pulse discards accumulated
\* bits, a reappearance of the marker included: the section stays
\* synchronised, the accumulator before a pulse is a prefix of the
\* accumulator after it, and the section's output is the whole accumulator.
C9_MarkerAfterSyncKept ==
    [][(pc = "pulse" /\ active)
       => /\ pc' = "pulse" => /\ active'
                              /\ Len(bits') >= Len(bits)
                              /\ SubSeq(bits', 1, Len(bits)) = bits
          /\ pc' = "section" => raw_sections' = Append(raw_sections, bits)]_vars

\* the marker has reappeared after synchronisation and is still held
C9_Witness ==
    /\ pc = "pulse"
    /\ active
    /\ Len(bits) >= 8
    /\ Last8(bits) = START_SEQUENCE

\* C11, as stated: a Start pulse that arrives in a synchronised section when
\* the number of pulses processed since the marker (Start pulses included) is
\* not a multiple of 8 makes the call fail, so that every accepted one arrives
\* at a multiple of 8 pulses.
C11_Original ==
    [][(/\ pc = "pulse"
        /\ p < Len(sections[s + 1])
        /\ sections[s + 1][p + 1] = "Start"
        /\ FirstMarker(sections[s + 1], p) > 0
        /\ (p - FirstMarker(sections[s + 1], p)) % 8 # 0)
       => /\ pc' = "done"
          /\ result' = Err(InvalidStartPulse)]_vars

\* C11, amended: the count that must be a multiple of 8 is the number of Zero
\* and One pulses since the first marker of the section, Start pulses not
\* counted: a Start pulse arriving at such a count is accepted, at any other
\* count the call fails with the misaligned-start-pulse error.
C11_StartAtWholeBytes ==
    [][(/\ pc = "pulse"
        /\ p < Len(sections[s + 1])
        /\ sections[s + 1][p + 1] = "Start"
        /\ FirstMarker(sections[s + 1], p) > 0)
       => IF Len(PostBits(sections[s + 1],
                          FirstMarker(sections[s + 1], p), p)) % 8 = 0
          THEN /\ pc' = "pulse"
               /\ p' = p + 1
               /\ result' = result
          ELSE /\ pc' = "done"
               /\ result' = Err(InvalidStartPulse)]_vars

\* a Start pulse was accepted after a whole byte that followed an earlier
\* accepted Start pulse: 9 pulses had been processed since the marker
C11_Witness ==
    /\ pc = "pulse"
    /\ active
    /\ p = FirstMarker(sections[s + 1], p) + 10
    /\ sections[s + 1][p] = "Start"
    /\ sections[s + 1][p - 9] = "Start"
    /\ Len(bits) = 8

\* C10: on success the result holds one bit sequence per section, in input
\* order, the sections being the runs of pulses ended by each gap longer than
\* 20000/44100 s, and the final run when it holds at least one pulse.
C10_OneSequencePerSection ==
    (pc = "done" /\ result.tag = "Ok")
    => \E runs \in {ExpectedRuns(GapKinds)} :
           /\ Len(result.val) = Len(runs)
           /\ \A n \in 1 .. Len(runs) :
                  /\ FirstMarker(runs[n], Len(runs[n])) > 0
                  /\ result.val[n] = Payload(runs[n])

\* a successful call on two sections with different bit sequences
C10_Witness ==
    /\ pc = "done"
    /\ result.tag = "Ok"
    /\ Len(result.val) = 2
    /\ result.val[1] # result.val[2]
    /\ Cardinality(EndPositions(GapKinds)) = 1

\* C13: every section starts with `active` false and an empty accumulator,
\* and the bit sequence emitted for a section is the one the assembler gives
\* that section's pulses when run on them alone from that start: nothing of
\* the sections before it, neither bits nor synchronisation, enters it.
C13_SectionsIndependent ==
    /\ pc = "section" => bits = <<>>
    /\ (pc = "pulse" /\ p = 0) => (~active /\ bits = <<>>)
    /\ \A k \in 1 .. Len(raw_sections) :
         \E a \in {AssembleSection(sections[k], 0, <<>>, FALSE)} :
             a.err = "" /\ raw_sections[k] = a.bits
    /\ \A k, m \in 1 .. Len(raw_sections) :
         sections[k] = sections[m] => raw_sections[k] = raw_sections[m]

\* a section starts right after a section that synchronised and emitted bits
C13_Witness ==
    /\ pc = "pulse"
    /\ p = 0
    /\ s >= 1
    /\ raw_sections[s] # <<>>
    /\ FirstMarker(sections[s], Len(sections[s])) > 0
    /\ Len(sections[s + 1]) >= 8

\* a gap that is neither a pulse nor a section boundary
HasInvalidGap == \E k \in 1 .. Len(GapKinds) : GapKinds[k] = "Invalid"

\* C15: when some gap of the buffer is neither a pulse nor a section boundary
\* the call ends with the invalid-pulse-length error and no section is ever
\* handed to the frame assembler, whatever the sections before that gap hold;
\* the assembler runs, and its two errors are reported, only when every gap
\* of the buffer has classified.
C15_InvalidPulseFirst ==
    /\ (pc = "done" /\ HasInvalidGap)
       => /\ result = Err(InvalidPulseLength)
          /\ s = 0 /\ p = 0 /\ ~active /\ bits = <<>> /\ raw_sections = <<>>
    /\ pc \in {"section", "pulse"} => ~HasInvalidGap
    /\ (pc = "done" /\ result.msg \in {InvalidStartPulse, NoStartSequence})
       => ~HasInvalidGap
    /\ (pc = "done" /\ result = Err(InvalidPulseLength)) => HasInvalidGap

\* the call failed on an invalid gap that follows a section without marker
C15_Witness ==
    /\ pc = "done"
    /\ result = Err(InvalidPulseLength)
    /\ sections # <<>>
    /\ FirstMarker(sections[1], Len(sections[1])) = 0
    /\ j >= 2

\* a long gap with no pulse before it since the start or the last long gap
EmptyRunAt(kinds, k) ==
    kinds[k] = "End" /\ (k = 1 \/ kinds[k - 1] = "End")

HasEmptyRun == \E k \in 1 .. Len(GapKinds) : EmptyRunAt(GapKinds, k)

\* the first run without pulses, counted among the runs
FirstEmptyRun ==
    LET runs == ExpectedRuns(GapKinds)
        empt == {n \in 1 .. Len(runs) : runs[n] = <<>>}
    IN  CHOOSE n \in empt : \A m \in empt : n <= m

\* the assembler's verdict on a run of pulses taken alone
RunError(run) == AssembleSection(run, 0, <<>>, FALSE).err

\* C18, as stated: when the first gap is a long gap or two long gaps are
\* consecutive, the call fails with the synchronisation-not-found error.
C18_Original ==
    (pc = "done" /\ HasEmptyRun) => result = Err(NoStartSequence)

\* C18, amended: when the first gap is a long gap or two long gaps are
\* consecutive, the long gap pushes an empty section and the call fails:
\* with the invalid-pulse-length error if some gap of the buffer is invalid;
\* otherwise with the error of the first section that fails, which is the
\* synchronisation-not-found error when every section before the first empty
\* one synchronises and holds no misaligned Start pulse (always so when the
\* first gap is the long one), the empty section being reached and rejected.
C18_EmptySectionFails ==
    /\ (pc \in {"section", "pulse", "done"} /\ ~HasInvalidGap)
       => Len(sections) = Len(ExpectedRuns(GapKinds))
    /\ (pc = "done" /\ HasEmptyRun)
       => /\ result.tag = "Err"
          /\ HasInvalidGap => result = Err(InvalidPulseLength)
          /\ ~HasInvalidGap =>
               \E runs \in {ExpectedRuns(GapKinds)}, e \in {FirstEmptyRun} :
                   IF \A n \in 1 .. e - 1 : RunError(runs[n]) = ""
                   THEN /\ result = Err(NoStartSequence)
                        /\ s = e - 1
                        /\ sections[e] = <<>>
                        /\ Len(raw_sections) = e - 1
                   ELSE /\ s < e - 1
                        /\ result = Err(RunError(runs[s + 1]))

\* the call failed on the empty section that two consecutive long gaps made,
\* after a section that synchronised and was assembled
C18_Witness ==
    /\ pc = "done"
    /\ result = Err(NoStartSequence)
    /\ s >= 1
    /\ Len(raw_sections) = s
    /\ sections[s + 1] = <<>>
    /\ HasEmptyRun

----------------------------------------------------------------------------
(* Claims about whole calls *)

\* the channel-0 samples whose magnitude exceeds the threshold
Qualifying(buf, channels) ==
    {x \in 0 .. buf.len - 1 :
        /\ x % channels = 0
        /\ \/ SampleAt(buf, x) > INT_CROSS_THRESHOLD
           \/ SampleAt(buf, x) < -INT_CROSS_THRESHOLD}

\* C1: on a buffer with fewer than 2 channel-0 samples above the noise
\* threshold (the empty buffer included) decode returns success with no
\* section; it neither returns an error nor aborts.
C1_FewSamplesGiveNoSections ==
    (pc = "done" /\ Cardinality(Qualifying(samples, spec.channels)) < 2)
    => result = Ok(<<>>)

\* a train: the marker led by a Zero or Start pulse, then whole bytes of
\* Zero and One pulses
IsTrain(kinds) ==
    /\ Len(kinds) >= 8
    /\ Len(kinds) % 8 = 0
    /\ kinds[1] \in {"Zero", "Start"}
    /\ \A k \in 2 .. 8 : kinds[k] = "One"
    /\ \A k \in 9 .. Len(kinds) : kinds[k] \in {"Zero", "One"}

\* C2: round trip: crossings whose gaps are, by their exact durations, the
\* marker 0x7F (a Zero- or Start-length gap, then seven One-length gaps)
\* followed by one gap per bit of a byte sequence decode successfully to
\* exactly one bit sequence, the bits of the bytes in order.
C2_RoundTrip ==
    (pc = "done" /\ IsTrain(GapKinds))
    => result = Ok(<<[k \in 1 .. Len(GapKinds) - 8 |-> PreBit(GapKinds[k + 8])]>>)

\* a train led by a Start-length gap whose first byte is 0x7F was decoded
C2_Witness ==
    /\ pc = "done"
    /\ IsTrain(GapKinds)
    /\ GapKinds[1] = "Start"
    /\ result.tag = "Ok"
    /\ Len(result.val) = 1
    /\ Len(result.val[1]) = 16
    /\ SubSeq(result.val[1], 1, 8) = START_SEQUENCE

\* C4: every call ends either with the complete collection, one bit sequence
\* per section, or with exactly one of the three errors and no bit sequence.
C4_AllOrNothing ==
    pc = "done"
    => \/ result.tag = "Ok" /\ Len(result.val) = Len(sections)
       \/ /\ result.tag = "Err"
          /\ result.val = <<>>
          /\ result.msg \in {InvalidPulseLength, InvalidStartPulse,
                             NoStartSequence}

\* what the classify loop made of the first gap
ObservedKind ==
    IF Len(intersections) < 2 \/ (pc = "classify" /\ j = 0) THEN "none"
    ELSE IF j = 0 THEN "Invalid"
    ELSE IF sections # <<>>
    THEN (IF sections[1] = <<>> THEN "End" ELSE sections[1][1])
    ELSE dat[1]

\* C7: a gap of d samples at rate r is classified by the half-open intervals
\* of the table on the ratio d / r alone: lower bounds included, upper bounds
\* excluded, above 20000/44100 a section boundary, everything else invalid.
C7_ClassifiedByExactRatio ==
    \/ ObservedKind = "none"
    \/ ObservedKind =
           ExactKind(intersections[2] - intersections[1], spec.sample_rate)

\* the buffers that differ from buf at most outside channel 0
Variants(buf, channels) ==
    LET off == {x \in 0 .. buf.len - 1 : x % channels # 0} IN
    {[len |-> buf.len,
      at  |-> [x \in 0 .. buf.len - 1 |->
                  IF x \in off THEN g[x] ELSE buf.at[x]]]
        : g \in [off -> SampleVals]}

\* C8: two buffers of equal length that agree on every index that is a
\* multiple of the channel count give the same result; an index that is not
\* such a multiple is never a crossing and never the last qualifying sample.
C8_ChannelIsolation ==
    /\ pc = "done" =>
         \A other \in Variants(samples, spec.channels) :
             Decode(other, spec, overflow_checks) = result
    /\ \A k \in 1 .. Len(intersections) : intersections[k] % spec.channels = 0
    /\ last[2] % spec.channels = 0

\* a two-channel call that returned, on a buffer whose other channel holds a
\* negative and then a positive sample above the threshold
C8_Witness ==
    /\ pc = "done"
    /\ result.tag = "Ok"
    /\ spec.channels = 2
    /\ samples.len >= 4
    /\ samples.at[1] = NegSample
    /\ samples.at[3] = PosSample

\* the magnitude of a sample exceeds the threshold (the magnitude is the
\* mathematical one: that of -2^31 is 2^31)
Loud(x) == x > INT_CROSS_THRESHOLD \/ x < -INT_CROSS_THRESHOLD

\* the most recent qualifying index before idx, -1 if there is none
LastLoud(buf, channels, idx) ==
    LET before == {x \in Qualifying(buf, channels) : x < idx} IN
    IF before = {} THEN -1 ELSE CHOOSE x \in before : \A y \in before : y <= x

\* idx is a rise: a positive qualifying sample whose most recent qualifying
\* predecessor is negative
IsRise(buf, channels, idx) ==
    /\ idx \in Qualifying(buf, channels)
    /\ SampleAt(buf, idx) > 0
    /\ LastLoud(buf, channels, idx) >= 0
    /\ SampleAt(buf, LastLoud(buf, channels, idx)) < 0

\* C12: among the samples scanned so far the recorded crossings are exactly
\* the rises (channel 0, magnitude strictly above the threshold, positive,
\* most recent earlier qualifying sample negative), and the remembered sample
\* is the most recent qualifying one, (0, 0) before the first: a sample at or
\* below the threshold changes neither, a fall and the first qualifying sample
\* record nothing.
C12_CrossingsAreRises ==
    /\ SeqRange(intersections)
           = {x \in 0 .. i - 1 : IsRise(samples, spec.channels, x)}
    /\ \E m \in {LastLoud(samples, spec.channels, i)} :
           last = IF m < 0 THEN <<0, 0>> ELSE <<SampleAt(samples, m), m>>

\* C12 on the buffers that hold no sample equal to -2^31
C12_WithoutMinSample ==
    (\A x \in 0 .. samples.len - 1 : SampleAt(samples, x) # I32_MIN)
    => C12_CrossingsAreRises

\* C14: in every state the list of crossings is strictly ascending, each of
\* its indices is a multiple of the channel count and below the buffer length
\* (below the number of samples scanned, even), and strictly between two
\* consecutive crossings lies a channel-0 sample that is negative with a
\* magnitude above the threshold.
C14_CrossingList ==
    /\ \A k \in 1 .. Len(intersections) :
         /\ intersections[k] % spec.channels = 0
         /\ intersections[k] < i
         /\ i <= samples.len
    /\ \A k \in 1 .. Len(intersections) - 1 :
         /\ intersections[k] < intersections[k + 1]
         /\ \E x \in intersections[k] + 1 .. intersections[k + 1] - 1 :
              /\ x % spec.channels = 0
              /\ SampleAt(samples, x) < -INT_CROSS_THRESHOLD

\* the scan has recorded two crossings
C14_Witness ==
    /\ Len(intersections) = 2
    /\ intersections[2] = i - 1
    /\ pc = "scan"

\* the first qualifying index after idx among the samples scanned, -1 if none
NextLoud(buf, channels, idx, scanned) ==
    LET after == {x \in Qualifying(buf, channels) : x > idx /\ x < scanned} IN
    IF after = {} THEN -1 ELSE CHOOSE x \in after : \A y \in after : x <= y

\* C16: a channel-0 sample equal to -2^31 passes the threshold test as a
\* negative sample: the scan does not abort on it, it is the remembered
\* sample until the next qualifying one, and when that next one is positive
\* its index is recorded as a crossing.
C16_MinSampleQualifies ==
    /\ ~(pc = "done" /\ result = Panicked /\ i < samples.len)
    /\ \A x \in 0 .. i - 1 :
         (x % spec.channels = 0 /\ SampleAt(samples, x) = I32_MIN)
         => \E n \in {NextLoud(samples, spec.channels, x, i)} :
                /\ n < 0 => last = <<I32_MIN, x>>
                /\ (n >= 0 /\ SampleAt(samples, n) > 0)
                   => n \in SeqRange(intersections)

\* a mono buffer laid out as channel 0 of a buffer of c channels, the other
\* channels silent: frame x goes to index c * x
Interleave(buf, c) ==
    [len |-> c * buf.len,
     at  |-> [x \in {c * y : y \in DOMAIN buf.at} |-> buf.at[x \div c]]]

\* C17: a gap is classified by the time between its two crossings whatever
\* the channel count: a call on a mono buffer and the call on the same
\* waveform interleaved as channel 0 of a buffer of c > 1 channels, at the
\* same sample rate, classify every gap alike and so end with the same result.
C17_DurationIgnoresChannels ==
    (pc = "done" /\ spec.channels = 1 /\ Len(intersections) >= 2)
    => \A c \in 2 .. MaxChannels :
           Decode(Interleave(samples, c), [spec EXCEPT !.channels = c],
                  overflow_checks) = result

====
